---- MODULE Spec2Model ----
(***************************************************************************)
(* Model of the cairo-lint analyzer plugin (crates/cairo-lint-core).       *)
(*                                                                         *)
(* The state is one call of CairoLint::diagnostics on a module: the        *)
(* module's items, the position of the item loop and of the descendant     *)
(* loop, the diagnostics vector, and the two locals of                     *)
(* check_destruct_match as its last call left them.  After the call has    *)
(* returned, the host classifies the returned messages with                *)
(* diagnostic_kind_from_message (Spec); a host may also classify           *)
(* diagnostic records of any origin (SpecHost).                            *)
(*                                                                         *)
(* Source text is a sequence of one-character strings, so that             *)
(* `get_text(..).is_empty()` and `get_text(..).contains("()")` are         *)
(* computed on text, not assumed.                                          *)
(***************************************************************************)
EXTENDS Integers, Sequences, FiniteSets, TLC

\* Bounds of the explored inputs.
MaxArms == 3
MaxItems == 2
MaxHeld == 2

----------------------------------------------------------------------------
\* Messages and lint kinds (plugin.rs 21-43).  The backquotes of the source
\* strings are written as apostrophes; no source string has an apostrophe.

DESTRUCT_MATCH ==
    "you seem to be trying to use 'match' for destructuring a single pattern. Consider using 'if let'"
MATCH_FOR_EQUALITY ==
    "you seem to be trying to use 'match' for an equality check. Consider using 'if'"
EMPTY_WITH_BRACKETS == "enum variant has empty brackets"
\* the message check_variant builds inline
REDUNDANT_PARENTHESES ==
    "This enum variant has redundant parentheses and can be simplified."

CairoLintKind == {"DestructMatch", "MatchForEquality", "EmptyWithBrackets", "Unknown"}

\* variant: a trailing space is tolerated
diagnostic_kind_from_message_prefix(message) ==
    CASE message = DESTRUCT_MATCH -> "DestructMatch"
      [] message = MATCH_FOR_EQUALITY -> "MatchForEquality"
      [] message = EMPTY_WITH_BRACKETS -> "EmptyWithBrackets"
      [] message = "enum variant has empty brackets " -> "EmptyWithBrackets"
      [] OTHER -> "Unknown"

diagnostic_kind_from_message(message) ==
    CASE message = DESTRUCT_MATCH -> "DestructMatch"
      [] message = MATCH_FOR_EQUALITY -> "MatchForEquality"
      [] message = EMPTY_WITH_BRACKETS -> "EmptyWithBrackets"
      [] OTHER -> "Unknown"

\* Texts a host may hand to the classifier.
Messages ==
    {DESTRUCT_MATCH, MATCH_FOR_EQUALITY, EMPTY_WITH_BRACKETS, REDUNDANT_PARENTHESES,
     "", "enum variant has empty brackets ", "Enum variant has empty brackets",
     "you seem to be trying to use 'match' for an equality check."}

----------------------------------------------------------------------------
\* The syntax tree handed to the plugin.

\* A pattern: its variant and, for an enum pattern, the optional
\* parenthesised inner pattern (a sequence of length 0 or 1).
Leaf(kind) == [kind |-> kind, inner |-> <<>>]
PatternEnum(inner) == [kind |-> "Enum", inner |-> inner]

\* A, A(a), A(()), A(A), A(A(()))
EnumPatterns ==
    {PatternEnum(<<>>),
     PatternEnum(<<Leaf("Identifier")>>),
     PatternEnum(<<Leaf("Tuple")>>),
     PatternEnum(<<PatternEnum(<<>>)>>),
     PatternEnum(<<PatternEnum(<<Leaf("Tuple")>>)>>)}

ArmPatterns == {Leaf("Underscore"), Leaf("Identifier"), Leaf("Struct")} \cup EnumPatterns

\* Expressions: a block of statements, a tuple of n expressions, or another.
ExprTuple(n) == [kind |-> "Tuple", statements |-> <<>>, expressions |-> n]
ExprOther == [kind |-> "Other", statements |-> <<>>, expressions |-> 0]
ExprBlock(statements) == [kind |-> "Block", statements |-> statements, expressions |-> 0]
\* Statements: an expression statement (expr holds it) or a let statement.
StatementExpr(e) == [kind |-> "Expr", expr |-> <<e>>]
StatementLet == [kind |-> "Let", expr |-> <<>>]

ArmBodies ==
    {ExprBlock(<<>>),
     ExprBlock(<<StatementExpr(ExprTuple(0))>>),
     ExprBlock(<<StatementExpr(ExprTuple(1))>>),
     ExprBlock(<<StatementExpr(ExprOther)>>),
     ExprBlock(<<StatementLet>>),
     ExprBlock(<<StatementExpr(ExprTuple(0)), StatementExpr(ExprTuple(0))>>),
     ExprTuple(0), ExprTuple(1), ExprOther}

MatchArm(p, e) == [patterns |-> <<p>>, expression |-> e]

\* Every body under a wildcard pattern; the body under another pattern is
\* not read (plugin.rs 59), two bodies stand for it.
Arms ==
    {MatchArm(Leaf("Underscore"), e) : e \in ArmBodies} \cup
    {MatchArm(p, e) : p \in ArmPatterns \ {Leaf("Underscore")},
                      e \in {ExprBlock(<<>>), ExprOther}}

\* The arms of the matches of any arity.
ArityArms ==
    {MatchArm(Leaf("Underscore"), ExprBlock(<<>>)),
     MatchArm(Leaf("Underscore"), ExprTuple(0)),
     MatchArm(Leaf("Underscore"), ExprOther),
     MatchArm(Leaf("Identifier"), ExprOther),
     MatchArm(Leaf("Struct"), ExprOther),
     MatchArm(PatternEnum(<<>>), ExprOther),
     MatchArm(PatternEnum(<<Leaf("Identifier")>>), ExprOther)}

SeqsUpTo(S, n) == UNION {[1..m -> S] : m \in 0..n}

ExprMatch(arms) == [kind |-> "ExprMatch", arms |-> arms, pattern |-> <<>>]
LetPattern(p) == [kind |-> "StatementLet", arms |-> <<>>, pattern |-> <<p>>]

Matches ==
    {ExprMatch(arms) : arms \in [1..2 -> Arms]} \cup
    {ExprMatch(arms) : arms \in SeqsUpTo(ArityArms, MaxArms)}

----------------------------------------------------------------------------
\* Source text of the nodes, one character per element.

RECURSIVE get_text(_)
get_text(p) ==
    CASE p.kind = "Underscore" -> <<"_">>
      [] p.kind = "Identifier" -> <<"a">>
      [] p.kind = "Tuple" -> <<"(", ")">>
      [] p.kind = "Struct" -> <<"S", "{", "a", "}">>
      [] p.kind = "Enum" ->
           <<"A">> \o (IF p.inner = <<>> THEN <<>>
                       ELSE <<"(">> \o get_text(p.inner[1]) \o <<")">>)

\* Text of the node PatternEnum::pattern returns: the optional
\* parenthesised inner pattern, parentheses included.
inner_pattern_text(pat) ==
    IF pat.inner = <<>> THEN <<>> ELSE <<"(">> \o get_text(pat.inner[1]) \o <<")">>

\* str::contains
contains(text, sub) ==
    \E n \in 1..(Len(text) - Len(sub) + 1) : SubSeq(text, n, n + Len(sub) - 1) = sub

\* SyntaxKind of a pattern node
PatternKind(p) == "Pattern" \o p.kind

----------------------------------------------------------------------------
\* The rules.

Diagnostic(ptr, message) ==
    [stable_ptr |-> ptr, message |-> message, severity |-> "Warning"]

\* variant: insert at the front
push_front(diagnostics, d) == <<d>> \o diagnostics

\* Vec::push
push(diagnostics, d) == Append(diagnostics, d)

\* variant: only the pattern's own inner pattern is looked at
is_redundant_parentheses_direct(pattern) ==
    IF PatternKind(pattern) = "PatternEnum"
    THEN pattern.inner # <<>> /\ get_text(pattern.inner[1]) = <<"(", ")">>
    ELSE FALSE

is_redundant_parentheses(pattern) ==
    IF PatternKind(pattern) = "PatternEnum"
    THEN contains(get_text(pattern), <<"(", ")">>)
    ELSE FALSE

\* Option<PluginDiagnostic> as a sequence of length 0 or 1
check_variant(variant, ptr) ==
    IF is_redundant_parentheses(variant)
    THEN <<Diagnostic(ptr, REDUNDANT_PARENTHESES)>>
    ELSE <<>>

\* variant: the value is assigned without `|| is_single_armed`
underscore_arm_overwrite(expression, is_single_armed) ==
    LET statements == expression.statements
        tuple_expr ==
            CASE expression.kind = "Block" ->
                   IF Len(statements) = 1
                   THEN IF statements[1].kind = "Expr" /\ statements[1].expr[1].kind = "Tuple"
                        THEN <<statements[1].expr[1]>>
                        ELSE <<>>
                   ELSE <<>>
              [] expression.kind = "Tuple" -> <<expression>>
              [] OTHER -> <<>>
    IN  tuple_expr # <<>> /\ tuple_expr[1].expressions = 0

\* The Pattern::Underscore branch: the new value of is_single_armed.
underscore_arm(expression, is_single_armed) ==
    LET statements == expression.statements
        afterBlock ==
            IF expression.kind = "Block" /\ statements = <<>> THEN TRUE ELSE is_single_armed
        tuple_expr ==
            CASE expression.kind = "Block" ->
                   IF Len(statements) = 1
                   THEN IF statements[1].kind = "Expr" /\ statements[1].expr[1].kind = "Tuple"
                        THEN <<statements[1].expr[1]>>
                        ELSE <<>>
                   ELSE <<>>
              [] expression.kind = "Tuple" -> <<expression>>
              [] OTHER -> <<>>
    IN  (tuple_expr # <<>> /\ tuple_expr[1].expressions = 0) \/ afterBlock

\* variant: the `!` is dropped
enum_arm_negation_lost(pat) == inner_pattern_text(pat) = <<>>

\* The Pattern::Enum branch: the new value of is_destructuring.
enum_arm(pat) == inner_pattern_text(pat) # <<>>

\* The Pattern::Struct branch: the new value of is_destructuring.
struct_arm(pat) == get_text(pat) # <<>>

\* variant: is_destructuring is or-ed with its previous value
arm_step_accumulating(arm, locals) ==
    LET pat == arm.patterns[1] IN
    CASE pat.kind = "Underscore" ->
           [locals EXCEPT !.is_single_armed = underscore_arm(arm.expression, @)]
      [] pat.kind = "Enum" -> [locals EXCEPT !.is_destructuring = enum_arm(pat) \/ @]
      [] pat.kind = "Struct" -> [locals EXCEPT !.is_destructuring = struct_arm(pat) \/ @]
      [] OTHER -> locals

\* One iteration of `for arm in arms` on the two locals.
arm_step(arm, locals) ==
    LET pat == arm.patterns[1] IN
    CASE pat.kind = "Underscore" ->
           [locals EXCEPT !.is_single_armed = underscore_arm(arm.expression, @)]
      [] pat.kind = "Enum" -> [locals EXCEPT !.is_destructuring = enum_arm(pat)]
      [] pat.kind = "Struct" -> [locals EXCEPT !.is_destructuring = struct_arm(pat)]
      [] OTHER -> locals

RECURSIVE for_arms(_, _)
for_arms(arms, locals) ==
    IF arms = <<>> THEN locals ELSE for_arms(Tail(arms), arm_step(Head(arms), locals))

\* variant: `arms.len() >= 2`
arity_guard_at_least(arms) == Len(arms) >= 2

\* `if arms.len() == 2`
arity_guard(arms) == Len(arms) = 2

\* check_destruct_match: the diagnostics vector and the two locals at return.
check_destruct_match(match_expr, ptr, diagnostics) ==
    LET arms == match_expr.arms
        init == [is_single_armed |-> FALSE, is_destructuring |-> FALSE]
        locals == IF arity_guard(arms) THEN for_arms(arms, init) ELSE init
    IN  [is_single_armed |-> locals.is_single_armed,
         is_destructuring |-> locals.is_destructuring,
         diagnostics |->
            CASE locals.is_single_armed /\ ~locals.is_destructuring ->
                   push(diagnostics, Diagnostic(ptr, MATCH_FOR_EQUALITY))
              [] locals.is_single_armed /\ locals.is_destructuring ->
                   push(diagnostics, Diagnostic(ptr, DESTRUCT_MATCH))
              [] OTHER -> diagnostics]

----------------------------------------------------------------------------
\* Modules handed to the plugin.

\* An item: a free function with the result of module_free_function_by_id
\* ("Ok", "Err" for Err(_), "None" for Ok(None)) and the top-level nodes of
\* its body, an extern function, or any other item.
FreeFunction(lookup, body) == [kind |-> "FreeFunction", lookup |-> lookup, body |-> body]
ExternFunction == [kind |-> "ExternFunction", lookup |-> "Ok", body |-> <<>>]
OtherItem == [kind |-> "Other", lookup |-> "Ok", body |-> <<>>]

EmptyBlockArm(p) == MatchArm(p, ExprBlock(<<>>))

\* fn f() {}
\* fn f() { let A(A(())) = ..; }
\* fn f() { match .. { A(()) => {}, _ => {} }; let A(a) = ..; }
\* fn f() { match .. { _ => {}, A => {} } }
SampleBodies ==
    {<<>>,
     <<LetPattern(PatternEnum(<<PatternEnum(<<Leaf("Tuple")>>)>>))>>,
     <<ExprMatch(<<EmptyBlockArm(PatternEnum(<<Leaf("Tuple")>>)),
                   EmptyBlockArm(Leaf("Underscore"))>>),
       LetPattern(PatternEnum(<<Leaf("Identifier")>>))>>,
     <<ExprMatch(<<EmptyBlockArm(Leaf("Underscore")), EmptyBlockArm(PatternEnum(<<>>))>>)>>}

Items ==
    {FreeFunction("Ok", body) : body \in SampleBodies} \cup
    {FreeFunction("Err", <<>>), FreeFunction("None", <<>>), ExternFunction, OtherItem}

\* module_items: "Ok" with the items, or "Err".
Modules ==
    {[module_items |-> "Ok", items |-> <<FreeFunction("Ok", <<m>>)>>] : m \in Matches} \cup
    {[module_items |-> "Ok", items |-> items] : items \in SeqsUpTo(Items, MaxItems)} \cup
    {[module_items |-> "Err", items |-> <<>>]}

----------------------------------------------------------------------------
\* SyntaxNode::descendants: the nodes of a function in document order, the
\* function node first.  Every entry carries the node's SyntaxKind; tokens
\* and list wrappers are left out (they fall in the `_ => ()` branch).

Node(kind, node) == [kind |-> kind, node |-> node]

RECURSIVE pattern_descendants(_)
pattern_descendants(p) ==
    <<Node(PatternKind(p), p)>> \o
    (IF p.kind = "Enum" /\ p.inner # <<>> THEN pattern_descendants(p.inner[1]) ELSE <<>>)

arm_descendants(arm) ==
    <<Node("MatchArm", arm)>> \o pattern_descendants(arm.patterns[1]) \o
    <<Node("Expr" \o arm.expression.kind, arm.expression)>>

RECURSIVE arms_descendants(_)
arms_descendants(arms) ==
    IF arms = <<>> THEN <<>>
    ELSE arm_descendants(Head(arms)) \o arms_descendants(Tail(arms))

stmt_descendants(stmt) ==
    IF stmt.kind = "ExprMatch"
    THEN <<Node("ExprMatch", stmt)>> \o arms_descendants(stmt.arms)
    ELSE <<Node("StatementLet", stmt)>> \o pattern_descendants(stmt.pattern[1])

RECURSIVE body_descendants(_)
body_descendants(body) ==
    IF body = <<>> THEN <<>>
    ELSE stmt_descendants(Head(body)) \o body_descendants(Tail(body))

descendants(func) == <<Node("FunctionWithBody", func)>> \o body_descendants(func.body)

----------------------------------------------------------------------------
\* One call of CairoLint::diagnostics, then the host's classification.

VARIABLES module, pc, i, k, diags, is_single_armed, is_destructuring, kinds

vars == <<module, pc, i, k, diags, is_single_armed, is_destructuring, kinds>>

Init ==
    /\ module \in Modules
    /\ pc = "start"
    /\ i = 1
    /\ k = 1
    /\ diags = <<>>
    /\ is_single_armed = FALSE
    /\ is_destructuring = FALSE
    /\ kinds = <<>>

item == module.items[i]
\* stable_ptr of the k-th descendant of the i-th item
StablePtr(item_index, node_index) == <<item_index, node_index>>
descendant == descendants(item)[k]

\* `let Ok(items) = db.module_items(module_id) else { return diags; }`
ModuleItems ==
    /\ pc = "start"
    /\ pc' = IF module.module_items = "Ok" THEN "items" ELSE "returned"
    /\ UNCHANGED <<module, i, k, diags, is_single_armed, is_destructuring, kinds>>

\* ModuleItemId::FreeFunction, the lookup succeeds
EnterFunction ==
    /\ pc = "items" /\ i <= Len(module.items)
    /\ item.kind = "FreeFunction" /\ item.lookup = "Ok"
    /\ pc' = "walk"
    /\ k' = 1
    /\ UNCHANGED <<module, i, diags, is_single_armed, is_destructuring, kinds>>

\* ModuleItemId::FreeFunction, `.unwrap().unwrap()` on Err(_) or Ok(None)
UnwrapPanics ==
    /\ pc = "items" /\ i <= Len(module.items)
    /\ item.kind = "FreeFunction" /\ item.lookup # "Ok"
    /\ pc' = "panicked"
    /\ UNCHANGED <<module, i, k, diags, is_single_armed, is_destructuring, kinds>>

\* ModuleItemId::ExternFunction(_) => (), _ => ()
SkipItem ==
    /\ pc = "items" /\ i <= Len(module.items)
    /\ item.kind # "FreeFunction"
    /\ i' = i + 1
    /\ UNCHANGED <<module, pc, k, diags, is_single_armed, is_destructuring, kinds>>

Walking == pc = "walk" /\ k <= Len(descendants(item))

\* SyntaxKind::ExprMatch => self.check_destruct_match(..)
VisitExprMatch ==
    /\ Walking /\ descendant.kind = "ExprMatch"
    /\ LET r == check_destruct_match(descendant.node, StablePtr(i, k), diags) IN
         /\ diags' = r.diagnostics
         /\ is_single_armed' = r.is_single_armed
         /\ is_destructuring' = r.is_destructuring
    /\ k' = k + 1
    /\ UNCHANGED <<module, pc, i, kinds>>

\* SyntaxKind::PatternEnum => check_variant, push on Some
VisitPatternEnum ==
    /\ Walking /\ descendant.kind = "PatternEnum"
    /\ LET diag == check_variant(descendant.node, StablePtr(i, k)) IN
         diags' = IF diag # <<>> THEN push(diags, diag[1]) ELSE diags
    /\ k' = k + 1
    /\ UNCHANGED <<module, pc, i, is_single_armed, is_destructuring, kinds>>

\* SyntaxKind::ItemExternFunction => (), _ => ()
VisitOther ==
    /\ Walking /\ descendant.kind \notin {"ExprMatch", "PatternEnum"}
    /\ k' = k + 1
    /\ UNCHANGED <<module, pc, i, diags, is_single_armed, is_destructuring, kinds>>

\* the descendant loop of one function ends
EndFunction ==
    /\ pc = "walk" /\ k > Len(descendants(item))
    /\ pc' = "items"
    /\ i' = i + 1
    /\ k' = 1
    /\ UNCHANGED <<module, diags, is_single_armed, is_destructuring, kinds>>

\* the item loop ends: `diags` is returned
Return ==
    /\ pc = "items" /\ i > Len(module.items)
    /\ pc' = "returned"
    /\ UNCHANGED <<module, i, k, diags, is_single_armed, is_destructuring, kinds>>

\* The host classifies the returned diagnostics in turn.
ClassifyDiagnostic ==
    /\ pc = "returned" /\ Len(kinds) < Len(diags)
    /\ kinds' = Append(kinds, diagnostic_kind_from_message(diags[Len(kinds) + 1].message))
    /\ UNCHANGED <<module, pc, i, k, diags, is_single_armed, is_destructuring>>

Next ==
    \/ ModuleItems
    \/ EnterFunction
    \/ UnwrapPanics
    \/ SkipItem
    \/ VisitExprMatch
    \/ VisitPatternEnum
    \/ VisitOther
    \/ EndFunction
    \/ Return
    \/ ClassifyDiagnostic

Spec == Init /\ [][Next]_vars

\* A host that holds diagnostic records of any origin and classifies their
\* messages: diagnostic_kind_from_message is public and takes any text.
HeldDiagnostics ==
    SeqsUpTo({Diagnostic(StablePtr(1, 1), message) : message \in Messages}, MaxHeld)

InitHost ==
    /\ module = [module_items |-> "Err", items |-> <<>>]
    /\ pc = "returned"
    /\ i = 1
    /\ k = 1
    /\ diags \in HeldDiagnostics
    /\ is_single_armed = FALSE
    /\ is_destructuring = FALSE
    /\ kinds = <<>>

NextHost == ClassifyDiagnostic

SpecHost == InitHost /\ [][NextHost]_vars

----------------------------------------------------------------------------
\* Vocabulary of the properties.

\* the descendants the walk has already dispatched, as stable pointers
VisitedPtrs ==
    {ptr \in UNION {{<<n, j>> : j \in 1..Len(descendants(module.items[n]))} :
                      n \in {m \in 1..Len(module.items) :
                               /\ module.items[m].kind = "FreeFunction"
                               /\ module.items[m].lookup = "Ok"}} :
        \/ ptr[1] < i
        \/ ptr[1] = i /\ pc = "walk" /\ ptr[2] < k}

NodeAt(ptr) == descendants(module.items[ptr[1]])[ptr[2]]

VisitedMatches == {ptr \in VisitedPtrs : NodeAt(ptr).kind = "ExprMatch"}

DiagsAt(ptr) == {n \in 1..Len(diags) : diags[n].stable_ptr = ptr}
DiagsWith(ptr, message) == {n \in DiagsAt(ptr) : diags[n].message = message}

\* a block with no statement, a block of the one statement `();`, or `()`
EmptyBody(e) ==
    \/ e.kind = "Block" /\ Len(e.statements) = 0
    \/ /\ e.kind = "Block" /\ Len(e.statements) = 1
       /\ e.statements[1].kind = "Expr"
       /\ e.statements[1].expr[1] = ExprTuple(0)
    \/ e = ExprTuple(0)

EmptyWildcardArm(arm) ==
    arm.patterns[1].kind = "Underscore" /\ EmptyBody(arm.expression)

\* an enum pattern with non-empty inner text or a struct pattern with
\* non-empty text
Destructures(arm) ==
    LET p == arm.patterns[1] IN
    \/ p.kind = "Enum" /\ Len(inner_pattern_text(p)) > 0
    \/ p.kind = "Struct" /\ Len(get_text(p)) > 0

HasEmptyParens(text) ==
    \E n \in 1..(Len(text) - 1) : text[n] = "(" /\ text[n + 1] = ")"

\* the match the walk dispatched last, when the last node was a match
JustCheckedMatch ==
    pc = "walk" /\ k > 1 /\ descendants(item)[k - 1].kind = "ExprMatch"
LastMatch == descendants(item)[k - 1].node

----------------------------------------------------------------------------
\* C1: a visited two-armed match with an empty wildcard arm whose other arm
\* does not destructure has exactly one MatchForEquality diagnostic at its
\* location and no DestructuringMatch diagnostic, in either arm order.
C1_MatchForEquality ==
    \A ptr \in VisitedMatches :
        LET arms == NodeAt(ptr).node.arms IN
        (/\ Len(arms) = 2
         /\ \E a \in 1..2 : EmptyWildcardArm(arms[a]) /\ ~Destructures(arms[3 - a]))
        => /\ Cardinality(DiagsWith(ptr, MATCH_FOR_EQUALITY)) = 1
           /\ DiagsWith(ptr, DESTRUCT_MATCH) = {}

\* the wildcard arm `_ => { (); }` comes second, after `A => {}`
C1_Witness ==
    \E ptr \in VisitedMatches :
        LET arms == NodeAt(ptr).node.arms IN
        /\ Len(arms) = 2
        /\ arms[1].patterns[1] = PatternEnum(<<>>)
        /\ arms[2] = MatchArm(Leaf("Underscore"), ExprBlock(<<StatementExpr(ExprTuple(0))>>))
        /\ Cardinality(DiagsWith(ptr, MATCH_FOR_EQUALITY)) = 1

\* C2: a visited two-armed match with an empty wildcard arm whose other arm
\* destructures (enum pattern with non-empty inner text, struct pattern with
\* non-empty text) has exactly one DestructuringMatch diagnostic at its
\* location and no MatchForEquality diagnostic, in either arm order.
C2_DestructuringMatch ==
    \A ptr \in VisitedMatches :
        LET arms == NodeAt(ptr).node.arms IN
        (/\ Len(arms) = 2
         /\ \E a \in 1..2 : EmptyWildcardArm(arms[a]) /\ Destructures(arms[3 - a]))
        => /\ Cardinality(DiagsWith(ptr, DESTRUCT_MATCH)) = 1
           /\ DiagsWith(ptr, MATCH_FOR_EQUALITY) = {}

\* the wildcard arm `_ => ()` comes first, before `S { a } => {}`
C2_Witness ==
    \E ptr \in VisitedMatches :
        LET arms == NodeAt(ptr).node.arms IN
        /\ Len(arms) = 2
        /\ arms[1] = MatchArm(Leaf("Underscore"), ExprTuple(0))
        /\ arms[2].patterns[1] = Leaf("Struct")
        /\ Cardinality(DiagsWith(ptr, DESTRUCT_MATCH)) = 1

\* C3: check_destruct_match on a match whose arm count is not two leaves the
\* diagnostics unchanged and none of them is located at that match.
C3_ArityGuard ==
    [][(Walking /\ descendant.kind = "ExprMatch" /\ Len(descendant.node.arms) # 2)
         => /\ diags' = diags
            /\ \A n \in 1..Len(diags') : diags'[n].stable_ptr # StablePtr(i, k)]_vars

\* a three-armed match with an empty wildcard arm and a destructuring arm
\* has been checked
C3_Witness ==
    /\ JustCheckedMatch
    /\ Len(LastMatch.arms) = 3
    /\ \E a \in 1..3 : EmptyWildcardArm(LastMatch.arms[a])
    /\ \E a \in 1..3 : Destructures(LastMatch.arms[a])
    /\ DiagsAt(StablePtr(i, k - 1)) = {}

\* C4: a visited EnumPattern node has exactly one diagnostic, a Warning of
\* the redundant-parentheses rule, if its text contains "()", and none
\* otherwise; a node of another kind has no diagnostic of that rule.
C4_EmptyEnumPattern ==
    \A ptr \in VisitedPtrs :
        IF NodeAt(ptr).kind = "PatternEnum"
        THEN /\ Cardinality(DiagsAt(ptr)) =
                  (IF HasEmptyParens(get_text(NodeAt(ptr).node)) THEN 1 ELSE 0)
             /\ \A n \in DiagsAt(ptr) :
                  diags[n].message = REDUNDANT_PARENTHESES /\ diags[n].severity = "Warning"
        ELSE DiagsWith(ptr, REDUNDANT_PARENTHESES) = {}

\* `A(A(()))`: a diagnostic at the outer and at the inner enum pattern
C4_Witness ==
    \E ptr \in VisitedPtrs :
        /\ NodeAt(ptr).kind = "PatternEnum"
        /\ NodeAt(ptr).node = PatternEnum(<<PatternEnum(<<Leaf("Tuple")>>)>>)
        /\ <<ptr[1], ptr[2] + 1>> \in VisitedPtrs
        /\ Cardinality(DiagsAt(ptr)) = 1
        /\ Cardinality(DiagsAt(<<ptr[1], ptr[2] + 1>>)) = 1

\* C5: every returned diagnostic classifies to the kind of the rule that
\* emitted it, never to Unknown.
C5_ClassifiesEmitted ==
    \A n \in 1..Len(kinds) :
        /\ kinds[n] # "Unknown"
        /\ kinds[n] =
             (IF NodeAt(diags[n].stable_ptr).kind = "PatternEnum" THEN "EmptyWithBrackets"
              ELSE IF diags[n].message = DESTRUCT_MATCH THEN "DestructMatch"
              ELSE "MatchForEquality")

\* C6: a function item whose body cannot be resolved is skipped: the call
\* does not abort, and what it returns has the diagnostics of the other
\* items.
C6_FailedItemSkipped ==
    /\ pc # "panicked"
    /\ (pc = "returned" /\ module.module_items = "Ok")
         => \A ptr \in VisitedPtrs :
              (NodeAt(ptr).kind = "PatternEnum" /\ HasEmptyParens(get_text(NodeAt(ptr).node)))
                => DiagsAt(ptr) # {}

\* C7: `match .. { A(()) => .., _ => {} }`, in either arm order, has one
\* MatchForEquality diagnostic and no DestructuringMatch diagnostic.
C7_EmptyParenthesesEnumArm ==
    \A ptr \in VisitedMatches :
        LET arms == NodeAt(ptr).node.arms IN
        (/\ Len(arms) = 2
         /\ \E a \in 1..2 : /\ EmptyWildcardArm(arms[a])
                            /\ arms[3 - a].patterns[1] = PatternEnum(<<Leaf("Tuple")>>))
        => /\ Cardinality(DiagsWith(ptr, MATCH_FOR_EQUALITY)) = 1
           /\ DiagsWith(ptr, DESTRUCT_MATCH) = {}

\* C8: the classifier returns a kind for every text: each canonical message
\* its own kind, every other text Unknown.
C8_ClassifierTotal ==
    \A n \in 1..Len(kinds) :
        LET message == diags[n].message
            kind == kinds[n]
        IN  /\ kind \in CairoLintKind
            /\ (message = DESTRUCT_MATCH) <=> (kind = "DestructMatch")
            /\ (message = MATCH_FOR_EQUALITY) <=> (kind = "MatchForEquality")
            /\ (message = EMPTY_WITH_BRACKETS) <=> (kind = "EmptyWithBrackets")
            /\ (message \notin {DESTRUCT_MATCH, MATCH_FOR_EQUALITY, EMPTY_WITH_BRACKETS})
                 <=> (kind = "Unknown")

\* a canonical message and the same message followed by a space have been
\* classified: EmptyWithBrackets, then Unknown
C8_Witness ==
    /\ Len(kinds) = 2
    /\ diags[1].message = EMPTY_WITH_BRACKETS
    /\ diags[2].message = "enum variant has empty brackets "
    /\ kinds = <<"EmptyWithBrackets", "Unknown">>

\* C9: the diagnostics are in the order of the walk: by item, and within an
\* item by position of the node in the descendant traversal.
C9_DocumentOrder ==
    \A a, b \in 1..Len(diags) :
        a < b =>
            LET pa == diags[a].stable_ptr
                pb == diags[b].stable_ptr
            IN  \/ pa[1] < pb[1]
                \/ pa[1] = pb[1] /\ pa[2] < pb[2]

\* two diagnostics of one item, then one of the next item, were returned
C9_Witness ==
    /\ pc = "returned"
    /\ Len(diags) >= 3
    /\ diags[1].stable_ptr[1] = diags[2].stable_ptr[1]
    /\ diags[1].message # diags[2].message
    /\ diags[3].stable_ptr[1] # diags[1].stable_ptr[1]

\* C10 as stated: after a two-armed match is checked, is_destructuring is
\* true iff at least one of the two arms destructures.
C10_Accumulates ==
    (JustCheckedMatch /\ Len(LastMatch.arms) = 2)
        => (is_destructuring <=> \E a \in 1..2 : Destructures(LastMatch.arms[a]))

\* C10 amended: after a two-armed match is checked, is_destructuring is true
\* iff the match has an arm with an enum or struct pattern and the last such
\* arm destructures; in particular, when at most one arm has an enum or
\* struct pattern, iff that arm destructures.
C10_LastArmWins ==
    (JustCheckedMatch /\ Len(LastMatch.arms) = 2)
        => LET arms == LastMatch.arms
               S == {a \in 1..2 : arms[a].patterns[1].kind \in {"Enum", "Struct"}}
           IN  /\ is_destructuring <=>
                    (S # {} /\ Destructures(arms[CHOOSE a \in S : \A b \in S : b <= a]))
               /\ Cardinality(S) <= 1 =>
                    (is_destructuring <=> \E a \in 1..2 : Destructures(arms[a]))

\* `A(a) => {}` then `A => {}` has been checked and left is_destructuring false
C10_Witness ==
    /\ JustCheckedMatch
    /\ Len(LastMatch.arms) = 2
    /\ LastMatch.arms[1].patterns[1] = PatternEnum(<<Leaf("Identifier")>>)
    /\ LastMatch.arms[2].patterns[1] = PatternEnum(<<>>)
    /\ ~is_destructuring

====
